---------------------------- MODULE Spec2Model ----------------------------
(***************************************************************************)
(* microcache: the incremental RESP parser (RESPParser), the reply encoder *)
(* (RESPEncoder), the command handler (CommandHandler) of                  *)
(* src/src/message_parser.py, the asyncio session (handle_client) of       *)
(* src/src/main.py, and the parser and session of the threaded server      *)
(* (MessageParser, handle_client) of src/src/main_threading.py.            *)
(*                                                                         *)
(* A byte is a one-character string ("*", "\r", ...); a byte above 0x7F is *)
(* written "xC3".  A bytes object or bytearray is a sequence of bytes.  A  *)
(* str is a sequence of characters; an ASCII character is the same string  *)
(* as its byte, U+00E9 and U+FFFD are written "U+00E9" and "U+FFFD".       *)
(* Positions in a buffer are 0-based, as in the source.                    *)
(***************************************************************************)
EXTENDS Integers, Sequences, FiniteSets, TLC

VARIABLES
    script,     \* the pieces the peer sends, in order
    stream,     \* every byte the peer sends on the connection, in order
    pos,        \* how many bytes of stream have been read so far
    buffer,     \* RESPParser.buffer
    commands,   \* the list returned by the last RESPParser.feed
    emitted,    \* every frame returned by feed so far, in order
    fed,        \* calls of feed so far: "none", "one" or "more"
    pc,         \* where handle_client is: "read", "dispatch", "drain", "closed"
    idx,        \* 1-based position of the for loop of handle_client in commands
    command,    \* the frame last handed to handle_command
    response,   \* the bytes last returned by handle_command
    written,    \* every response passed to writer.write, in order
    inflight,   \* number of writes not yet drained
    ending,     \* why the session ended: "open", "eof", "error"
    closes,     \* calls of writer.close() so far
    value,      \* the Optional[str] handed to encode_bulk_string
    other,      \* the connection that is suspended while this one runs
    extended,   \* len(self.buffer) after the extend of the feed under way
    iterations  \* iterations of the while loop of feed in the call under way

vars == <<script, stream, pos, buffer, commands, emitted, fed, pc, idx, command,
          response, written, inflight, ending, closes, value, other,
          extended, iterations>>

---------------------------------------------------------------------------
(* Python's builtins, as far as the source uses them.                      *)

CR == "\r"
LF == "\n"
CRLF == <<CR, LF>>

Min(S) == CHOOSE m \in S : \A k \in S : m <= k

\* Optional[T]: None, or a value.
None == [none |-> TRUE, val |-> <<>>]
Some(v) == [none |-> FALSE, val |-> v]

\* seq[a:b] with Python's clamping and negative indices.
PyIndexNorm(i, n) ==
    LET j == IF i < 0 THEN i + n ELSE i
    IN  IF j < 0 THEN 0 ELSE IF j > n THEN n ELSE j

PySlice(s, a, b) ==
    LET lo == PyIndexNorm(a, Len(s))
        hi == PyIndexNorm(b, Len(s))
    IN  IF lo >= hi THEN <<>> ELSE SubSeq(s, lo + 1, hi)

\* bytearray.index(sub, start): the lowest position >= start where sub
\* occurs; -1 stands for the ValueError raised when there is none.
PyIndex(s, sub, start) ==
    LET at == {i \in start .. (Len(s) - Len(sub)) :
                   SubSeq(s, i + 1, i + Len(sub)) = sub}
    IN  IF at = {} THEN -1 ELSE Min(at)

Digits == <<"0", "1", "2", "3", "4", "5", "6", "7", "8", "9">>
DigitSet == {Digits[i] : i \in 1..10}
DigitVal(c) == (CHOOSE i \in 1..10 : Digits[i] = c) - 1

\* The bytes int() and bytes.strip() treat as white space.
ByteSpace == {" ", "\t", "\n", "\r", "\f"}

PyStrip(s, space) ==
    LET keep == {i \in 1..Len(s) : s[i] \notin space}
    IN  IF keep = {} THEN <<>>
        ELSE SubSeq(s, Min(keep), CHOOSE m \in keep : \A k \in keep : k <= m)

RECURSIVE DigitsValue(_)
DigitsValue(ds) ==
    IF ds = <<>> THEN 0
    ELSE 10 * DigitsValue(SubSeq(ds, 1, Len(ds) - 1)) + DigitVal(ds[Len(ds)])

\* int(b) for a bytes-like b: white space stripped, an optional sign, then
\* digits, single underscores allowed between digits.  ok = FALSE stands for
\* the ValueError.
IsIntBody(body) ==
    /\ body # <<>>
    /\ \A i \in 1..Len(body) : body[i] \in DigitSet \cup {"_"}
    /\ body[1] # "_" /\ body[Len(body)] # "_"
    /\ \A i \in 1..(Len(body) - 1) : ~(body[i] = "_" /\ body[i + 1] = "_")

IsDigit(c) == c \in DigitSet

PyIntSigned(negative, body) ==
    IF ~IsIntBody(body) THEN [ok |-> FALSE, val |-> 0]
    ELSE [ok |-> TRUE,
          val |-> (IF negative THEN -1 ELSE 1)
                  * DigitsValue(SelectSeq(body, IsDigit))]

PyIntStripped(t) ==
    IF t # <<>> /\ t[1] \in {"+", "-"} THEN PyIntSigned(t[1] = "-", Tail(t))
    ELSE PyIntSigned(FALSE, t)

PyInt(b) == PyIntStripped(PyStrip(b, ByteSpace))

\* str(n) for n >= 0.
RECURSIVE PyStr(_)
PyStr(n) ==
    IF n < 10 THEN <<Digits[n + 1]>>
    ELSE PyStr(n \div 10) \o <<Digits[(n % 10) + 1]>>

\* UTF-8.  The characters outside ASCII the model knows are U+00E9 (C3 A9)
\* and the replacement character U+FFFD (EF BF BD).
NonAscii == {"xC3", "xA9", "xEF", "xBF", "xBD"}

\* bytes.decode("utf-8", errors="replace"): every maximal ill-formed
\* subsequence becomes one U+FFFD.
RECURSIVE PyDecode(_)
PyDecode(b) ==
    IF b = <<>> THEN <<>>
    ELSE IF b[1] \notin NonAscii THEN <<b[1]>> \o PyDecode(Tail(b))
    ELSE IF b[1] = "xC3" /\ Len(b) >= 2 /\ b[2] = "xA9"
        THEN <<"U+00E9">> \o PyDecode(SubSeq(b, 3, Len(b)))
    ELSE IF b[1] = "xEF" /\ Len(b) >= 3 /\ b[2] = "xBF" /\ b[3] = "xBD"
        THEN <<"U+FFFD">> \o PyDecode(SubSeq(b, 4, Len(b)))
    ELSE IF b[1] = "xEF" /\ Len(b) >= 2 /\ b[2] = "xBF"
        THEN <<"U+FFFD">> \o PyDecode(SubSeq(b, 3, Len(b)))
    ELSE <<"U+FFFD">> \o PyDecode(Tail(b))

\* str.encode("utf-8")
RECURSIVE PyEncode(_)
PyEncode(s) ==
    IF s = <<>> THEN <<>>
    ELSE (CASE s[1] = "U+00E9" -> <<"xC3", "xA9">>
            [] s[1] = "U+FFFD" -> <<"xEF", "xBF", "xBD">>
            [] OTHER -> <<s[1]>>) \o PyEncode(Tail(s))

\* The characters str.strip() and str.split() treat as white space.
StrSpace == {" ", "\t", "\n", "\r", "\f"}

\* str.split(): the maximal runs of characters that are not white space.
RECURSIVE PySplit(_)
SplitAt(t, sp) ==
    IF sp = {} THEN <<t>>
    ELSE <<SubSeq(t, 1, Min(sp) - 1)>> \o PySplit(SubSeq(t, Min(sp), Len(t)))
SplitStripped(t) ==
    IF t = <<>> THEN <<>>
    ELSE SplitAt(t, {i \in 1..Len(t) : t[i] \in StrSpace})
PySplit(s) == SplitStripped(PyStrip(s, StrSpace))

\* str.upper() on the letters the model uses.
Lower == <<"a", "b", "c", "e", "f", "g", "h", "i", "n", "o", "p", "U+00E9">>
Upper == <<"A", "B", "C", "E", "F", "G", "H", "I", "N", "O", "P", "U+00C9">>
UpperChar(c) ==
    IF \E i \in 1..Len(Lower) : Lower[i] = c
    THEN Upper[CHOOSE i \in 1..Len(Lower) : Lower[i] = c]
    ELSE c
PyUpper(s) == [i \in 1..Len(s) |-> UpperChar(s[i])]

\* str.lower() on the letters the model uses.
LowerChar(c) ==
    IF \E i \in 1..Len(Upper) : Upper[i] = c
    THEN Lower[CHOOSE i \in 1..Len(Upper) : Upper[i] = c]
    ELSE c
PyLower(s) == [i \in 1..Len(s) |-> LowerChar(s[i])]

\* s.split(sep) for a separator that is not empty.
RECURSIVE PySplitSep(_, _)
SplitSepAt(s, sep, i) ==
    IF i = -1 THEN <<s>>
    ELSE <<SubSeq(s, 1, i)>>
         \o PySplitSep(SubSeq(s, i + Len(sep) + 1, Len(s)), sep)
PySplitSep(s, sep) == SplitSepAt(s, sep, PyIndex(s, sep, 0))

\* s.startswith(c) for one character c.
PyStartsWith(s, c) == s # <<>> /\ s[1] = c

\* bytes.decode() raises UnicodeDecodeError: the strict decoding fails
\* where the lenient one puts a replacement character.
Undecodable(b) == PyEncode(PyDecode(b)) # b

\* sep.join(parts)
RECURSIVE PyJoin(_, _)
PyJoin(sep, parts) ==
    IF parts = <<>> THEN <<>>
    ELSE IF Len(parts) = 1 THEN parts[1]
    ELSE parts[1] \o sep \o PyJoin(sep, Tail(parts))

---------------------------------------------------------------------------
(* RESPParser (src/src/message_parser.py).  Each method that reads or       *)
(* changes self.buffer takes the buffer and returns what it returns         *)
(* together with the buffer it leaves.                                      *)

\* _consume_bytes: self.buffer = self.buffer[count:]
_consume_bytes(buf, count) == PySlice(buf, count, Len(buf))

\* _parse_bulk_string(start_pos) -> (element, new_position), in four steps:
\* the element found or not (None, start_pos).
NoElement(start_pos) == [element |-> None, position |-> start_pos]

\* A parser that ends the content at the first CRLF after the header,
\* whatever length is declared.
BulkContent_ToTerminator(buf, start_pos, content_start, content_end) ==
    IF PyIndex(buf, CRLF, content_start) = -1 THEN NoElement(start_pos)
    ELSE [element |->
              Some(PyDecode(PySlice(buf, content_start,
                                    PyIndex(buf, CRLF, content_start)))),
          position |-> PyIndex(buf, CRLF, content_start) + 2]

\* ... the content, once its bounds are known
BulkContent(buf, start_pos, content_start, content_end) ==
    IF content_end + 2 > Len(buf) THEN NoElement(start_pos)
    ELSE IF PySlice(buf, content_end, content_end + 2) # CRLF
        THEN NoElement(start_pos)
    ELSE [element |-> Some(PyDecode(PySlice(buf, content_start, content_end))),
          position |-> content_end + 2]

\* ... the declared length, once parsed
BulkLength(buf, start_pos, length_end, length) ==
    IF ~length.ok THEN NoElement(start_pos)
    ELSE IF length.val = -1
        THEN [element |-> Some(<<>>), position |-> length_end + 2]
    ELSE BulkContent(buf, start_pos, length_end + 2,
                     length_end + 2 + length.val)

\* ... the header line, once its CRLF is looked for
BulkHeader(buf, start_pos, length_end) ==
    IF length_end = -1 THEN NoElement(start_pos)
    ELSE BulkLength(buf, start_pos, length_end,
                    PyInt(PySlice(buf, start_pos + 1, length_end)))

_parse_bulk_string(buf, start_pos) ==
    IF start_pos >= Len(buf) THEN NoElement(start_pos)
    ELSE IF buf[start_pos + 1] # "$" THEN NoElement(start_pos)
    ELSE BulkHeader(buf, start_pos, PyIndex(buf, CRLF, start_pos))

\* The for loop of _parse_resp_array: `remaining` elements are still to be
\* read from `position`; None when one of them is not there.
RECURSIVE ParseElements(_, _, _, _)
NextElement(buf, remaining, position, elements, r) ==
    IF r.element.none THEN [elements |-> None, position |-> position]
    ELSE ParseElements(buf, remaining - 1, r.position,
                       Append(elements, r.element.val))
ParseElements(buf, remaining, position, elements) ==
    IF remaining <= 0 THEN [elements |-> Some(elements), position |-> position]
    ELSE NextElement(buf, remaining, position, elements,
                     _parse_bulk_string(buf, position))

\* A parser that gives up on an array whose elements are not all there,
\* dropping what it holds.
ArrayResult_DropsIncomplete(buf, r) ==
    IF r.elements.none THEN [result |-> None, buffer |-> <<>>]
    ELSE [result |-> r.elements, buffer |-> _consume_bytes(buf, r.position)]

\* _parse_resp_array -> Optional[List[str]], in four steps: the end of it
\* (consume the frame and return it, or return None)
ArrayResult(buf, r) ==
    IF r.elements.none THEN [result |-> None, buffer |-> buf]
    ELSE [result |-> r.elements, buffer |-> _consume_bytes(buf, r.position)]

\* ... the array length, once parsed
ArrayLength(buf, first_crlf, array_length) ==
    IF ~array_length.ok
    THEN [result |-> None, buffer |-> _consume_bytes(buf, first_crlf + 2)]
    ELSE ArrayResult(buf, ParseElements(buf, array_length.val,
                                        first_crlf + 2, <<>>))

\* A parser that takes a header line without its CRLF for a malformed one.
ArrayHeader_DropsPartial(buf, first_crlf) ==
    IF first_crlf = -1 THEN [result |-> None, buffer |-> <<>>]
    ELSE ArrayLength(buf, first_crlf, PyInt(PySlice(buf, 1, first_crlf)))

\* ... the header line, once its CRLF is looked for
ArrayHeader(buf, first_crlf) ==
    IF first_crlf = -1 THEN [result |-> None, buffer |-> buf]
    ELSE ArrayLength(buf, first_crlf, PyInt(PySlice(buf, 1, first_crlf)))

_parse_resp_array(buf) == ArrayHeader(buf, PyIndex(buf, CRLF, 0))

\* The body of the for loop of _parse_text_protocol once index() has found
\* the delimiter at `end`: the stripped line, and the buffer left.
TextResult(line, rest) ==
    [result |-> IF line # <<>> THEN Some(PySplit(line)) ELSE None,
     buffer |-> rest]

\* A parser that returns a text line and leaves it in the buffer.
TextLine_KeepsLine(buf, end, delimiter) ==
    TextResult(PyStrip(PyDecode(PySlice(buf, 0, end)), StrSpace), buf)

TextLine(buf, end, delimiter) ==
    TextResult(PyStrip(PyDecode(PySlice(buf, 0, end)), StrSpace),
               _consume_bytes(buf, end + Len(delimiter)))

\* _parse_text_protocol -> Optional[List[str]]
_parse_text_protocol(buf) ==
    IF PyIndex(buf, CRLF, 0) # -1
    THEN TextLine(buf, PyIndex(buf, CRLF, 0), CRLF)
    ELSE IF PyIndex(buf, <<LF>>, 0) # -1
    THEN TextLine(buf, PyIndex(buf, <<LF>>, 0), <<LF>>)
    ELSE [result |-> None, buffer |-> buf]

\* _try_parse -> Optional[List[str]]
_try_parse(buf) ==
    IF buf = <<>> THEN [result |-> None, buffer |-> buf]
    ELSE IF buf[1] = "*" THEN _parse_resp_array(buf)
    ELSE _parse_text_protocol(buf)

\* The while loop of feed.
\* A feed that parses one command per call (`if` for `while`).
FeedStep_FirstOnly(cmds, r) ==
    IF r.result.none THEN [commands |-> cmds, buffer |-> r.buffer]
    ELSE [commands |-> Append(cmds, r.result.val), buffer |-> r.buffer]

RECURSIVE FeedLoop(_, _)
FeedStep(cmds, r) ==
    IF r.result.none THEN [commands |-> cmds, buffer |-> r.buffer]
    ELSE FeedLoop(r.buffer, Append(cmds, r.result.val))
FeedLoop(buf, cmds) == FeedStep(cmds, _try_parse(buf))

\* feed(data) -> List[List[str]]
feed(buf, data) == FeedLoop(buf \o data, <<>>)

---------------------------------------------------------------------------
(* RESPEncoder and CommandHandler (src/src/message_parser.py).              *)

\* encode_simple_string: f"+{s}\r\n".encode("utf-8")
encode_simple_string(s) == PyEncode(<<"+">> \o s \o CRLF)

\* encode_error: f"-ERR {msg}\r\n".encode("utf-8")
encode_error(msg) == PyEncode(<<"-", "E", "R", "R", " ">> \o msg \o CRLF)

\* An encoder that declares the number of characters of the string.
encode_bulk_string_CharLength(s) ==
    IF s.none THEN <<"$", "-", "1">> \o CRLF
    ELSE PyEncode(<<"$">> \o PyStr(Len(s.val)) \o CRLF)
         \o PyEncode(s.val) \o CRLF

\* encode_bulk_string(s: Optional[str])
encode_bulk_string(s) ==
    IF s.none THEN <<"$", "-", "1">> \o CRLF
    ELSE LET encoded == PyEncode(s.val)
         IN  PyEncode(<<"$">> \o PyStr(Len(encoded)) \o CRLF) \o encoded \o CRLF

\* A PING that answers all its arguments, as ECHO does.
_handle_ping_AllArgs(args) ==
    IF args # <<>> THEN encode_bulk_string(Some(PyJoin(<<" ">>, args)))
    ELSE encode_simple_string(<<"P", "O", "N", "G">>)

\* _handle_ping(args)
_handle_ping(args) ==
    IF args # <<>> THEN encode_bulk_string(Some(args[1]))
    ELSE encode_simple_string(<<"P", "O", "N", "G">>)

\* An ECHO that answers its first argument alone, as PING does.
_handle_echo_FirstArg(args) ==
    IF args = <<>> THEN encode_bulk_string(None)
    ELSE encode_bulk_string(Some(args[1]))

\* _handle_echo(args)
_handle_echo(args) ==
    IF args = <<>> THEN encode_bulk_string(None)
    ELSE encode_bulk_string(Some(PyJoin(<<" ">>, args)))

\* handle_command(command: List[str]) -> bytes
handle_command(cmd) ==
    LET cmd_name == PyUpper(cmd[1])
        args == IF Len(cmd) > 1 THEN Tail(cmd) ELSE <<>>
    IN  IF cmd = <<>>
        THEN encode_error(<<"e", "m", "p", "t", "y", " ",
                            "c", "o", "m", "m", "a", "n", "d">>)
        ELSE IF cmd_name = <<"P", "I", "N", "G">> THEN _handle_ping(args)
        ELSE IF cmd_name = <<"E", "C", "H", "O">> THEN _handle_echo(args)
        ELSE encode_error(<<"u", "n", "k", "n", "o", "w", "n", " ",
                            "c", "o", "m", "m", "a", "n", "d", " ", "'">>
                          \o cmd_name \o <<"'">>)

---------------------------------------------------------------------------
(* What a peer sends.  A script is a sequence of pieces; a piece is either  *)
(* the RESP array of an argument list, `*<N>\r\n` followed by the bulk      *)
(* string of each argument, or raw bytes.                                   *)

MaxArgs == 2      \* arguments of a generated frame
MaxFrames == 3    \* generated frames sent back to back
MaxPieces == 2    \* pieces of a mixed script

\* All sequences over S of length lo..hi.
SeqsOf(S, lo, hi) == UNION {[1..n -> S] : n \in lo..hi}

RECURSIVE Concat(_)
Concat(ss) == IF ss = <<>> THEN <<>> ELSE ss[1] \o Concat(Tail(ss))

RespFrame(args) ==
    <<"*">> \o PyStr(Len(args)) \o CRLF
    \o Concat([i \in 1..Len(args) |-> encode_bulk_string(Some(args[i]))])

FramePiece(args) == [wf |-> TRUE, args |-> args, bytes |-> RespFrame(args)]
RawPiece(bytes) == [wf |-> FALSE, args |-> <<>>, bytes |-> bytes]

StreamOf(sc) == Concat([i \in 1..Len(sc) |-> sc[i].bytes])

\* Arguments of the generated frames: a letter, the empty string, a string
\* holding a line terminator, a string with a two-byte character, a string
\* of the bytes that start an array, end a line and start a bulk string.
ArgVals == {<<"a">>, <<>>, <<"b", CR, LF>>, <<"U+00E9", "c">>, <<"*", LF, "$">>}

\* One well-formed frame, every argument list of 1..MaxArgs arguments.
SingleFrames == {<<FramePiece(args)>> : args \in SeqsOf(ArgVals, 1, MaxArgs)}

\* Well-formed frames back to back.
RunFrames == {FramePiece(<<<<"a">>>>), FramePiece(<<<<>>, <<"b">>>>)}
FrameRuns == SeqsOf(RunFrames, 2, MaxFrames)

\* Mixed traffic: frames, text lines with either terminator, empty lines,
\* malformed headers, malformed elements, an empty array, elements of
\* declared length -1 and -2.
MalformedHeader == RawPiece(<<"*", "x", CR, LF>>)
EmptyLineLF == RawPiece(<<LF>>)
EmptyLineCRLF == RawPiece(CRLF)
TextLineLF == RawPiece(<<"e", LF>>)
TextLineCRLF == RawPiece(<<"c", " ", "d", CR, LF>>)
NotBulk == RawPiece(<<"*", "1", CR, LF, "+", CR, LF>>)
BadLength == RawPiece(<<"*", "1", CR, LF, "$", "x", CR, LF>>)
BadTerminator ==
    RawPiece(<<"*", "1", CR, LF, "$", "1", CR, LF, "a", "b", CR, LF>>)
ZeroArray == RawPiece(<<"*", "0", CR, LF>>)
NullBulk == RawPiece(<<"*", "1", CR, LF, "$", "-", "1", CR, LF>>)
NegativeLength == RawPiece(<<"*", "1", CR, LF, "$", "-", "2", CR, LF>>)

MixedPieces ==
    {FramePiece(<<<<"a">>>>), MalformedHeader, EmptyLineLF, EmptyLineCRLF,
     TextLineLF, TextLineCRLF, NotBulk, BadLength, BadTerminator, ZeroArray,
     NullBulk, NegativeLength}
MixedScripts == SeqsOf(MixedPieces, 1, MaxPieces)

ParserScripts == SingleFrames \cup FrameRuns \cup MixedScripts

---------------------------------------------------------------------------
(* A RESPParser fed the stream in chunks of any size.                       *)

ParserInit ==
    /\ script \in ParserScripts
    /\ stream = StreamOf(script)
    /\ pos = 0
    /\ buffer = <<>>
    /\ commands = <<>>
    /\ emitted = <<>>
    /\ fed = "none"
    /\ pc = "feed"
    /\ idx = 1
    /\ command = <<>>
    /\ response = <<>>
    /\ written = <<>>
    /\ inflight = 0
    /\ ending = "open"
    /\ closes = 0
    /\ value = None
    /\ other = <<>>
    /\ extended = 0
    /\ iterations = 0

\* parser.feed(data) with data the next n bytes of the stream.
Fed(n, r) ==
    /\ pos' = pos + n
    /\ buffer' = r.buffer
    /\ commands' = r.commands
    /\ emitted' = emitted \o r.commands
    /\ fed' = IF fed = "none" THEN "one" ELSE "more"

Feed(n) == Fed(n, feed(buffer, SubSeq(stream, pos + 1, pos + n)))

ParserFeed ==
    /\ pc = "feed"
    /\ \E n \in 1..(Len(stream) - pos) : Feed(n)
    /\ UNCHANGED <<closes, value, other, extended, iterations>>
    /\ UNCHANGED <<script, stream, pc, idx, command, response, written,
                   inflight, ending>>

ParserNext == ParserFeed

SpecParser == ParserInit /\ [][ParserNext]_vars

---------------------------------------------------------------------------
(* RESPParser.feed, one iteration of its while loop at a time.              *)

FeedLoopInit == ParserInit

\* feed(data) is called with the next n bytes of the stream:
\* self.buffer.extend(data); commands = []
FeedCall ==
    /\ pc = "feed"
    /\ \E n \in 1..(Len(stream) - pos) :
          /\ pos' = pos + n
          /\ buffer' = buffer \o SubSeq(stream, pos + 1, pos + n)
          /\ extended' = Len(buffer) + n
    /\ commands' = <<>>
    /\ iterations' = 0
    /\ pc' = "while"
    /\ UNCHANGED <<closes, value, other>>
    /\ UNCHANGED <<script, stream, emitted, fed, idx, command, response,
                   written, inflight, ending>>

\* An iteration in which _try_parse has returned r: break and return
\* commands, or append the result and loop.
Iterated(r) ==
    /\ buffer' = r.buffer
    /\ IF r.result.none
       THEN /\ pc' = "feed"
            /\ emitted' = emitted \o commands
            /\ fed' = IF fed = "none" THEN "one" ELSE "more"
            /\ UNCHANGED commands
       ELSE /\ pc' = "while"
            /\ commands' = Append(commands, r.result.val)
            /\ UNCHANGED <<emitted, fed>>

\* result = self._try_parse(); if result is None: break;
\* commands.append(result)
FeedIteration ==
    /\ pc = "while"
    /\ iterations' = iterations + 1
    /\ Iterated(_try_parse(buffer))
    /\ UNCHANGED <<closes, value, other, extended>>
    /\ UNCHANGED <<script, stream, pos, idx, command, response, written,
                   inflight, ending>>

FeedLoopNext == FeedCall \/ FeedIteration

SpecFeedLoop == FeedLoopInit /\ [][FeedLoopNext]_vars

---------------------------------------------------------------------------
(* handle_client (src/src/main.py): one connection of the asyncio server.   *)

ReadSize == 512

PING == <<"P", "I", "N", "G">>
ECHO == <<"E", "C", "H", "O">>

\* What the peers of the modelled connections send.
PingFrame == FramePiece(<<PING>>)
FooFrame == FramePiece(<<<<"f", "o", "o">>>>)
EchoLine == RawPiece(<<"e", "c", "h", "o", " ", "h", "i", LF>>)
Fragment == RawPiece(<<"*", "1", CR, LF, "$", "4", CR, LF, "P", "I">>)
SessionPieces ==
    {PingFrame, FooFrame, EchoLine, EmptyLineLF, MalformedHeader, Fragment}
SessionScripts == SeqsOf(SessionPieces, 1, MaxPieces + 1)

Init ==
    /\ script \in SessionScripts
    /\ stream = StreamOf(script)
    /\ pos = 0
    /\ buffer = <<>>
    /\ commands = <<>>
    /\ emitted = <<>>
    /\ fed = "none"
    /\ pc = "read"
    /\ idx = 1
    /\ command = <<>>
    /\ response = <<>>
    /\ written = <<>>
    /\ inflight = 0
    /\ ending = "open"
    /\ closes = 0
    /\ value = None
    /\ other = <<>>
    /\ extended = 0
    /\ iterations = 0

\* data = await reader.read(512) returns some bytes; commands =
\* parser.feed(data); the for loop starts.
Read ==
    /\ pc = "read"
    /\ \E n \in 1..(Len(stream) - pos) : n <= ReadSize /\ Feed(n)
    /\ idx' = 1
    /\ pc' = IF commands' = <<>> THEN "read" ELSE "dispatch"
    /\ UNCHANGED <<closes, value, other, extended, iterations>>
    /\ UNCHANGED <<script, stream, command, response, written, inflight, ending>>

\* A loop that does not break on an empty read: it feeds b"" and reads on.
ReadEOF_NoBreak ==
    /\ pc = "read"
    /\ pos = Len(stream)
    /\ ending = "open"
    /\ ending' = "eof"
    /\ UNCHANGED <<closes, value, other, extended, iterations>>
    /\ UNCHANGED <<script, stream, pos, buffer, commands, emitted, fed, pc, idx,
                   command, response, written, inflight>>

\* data = await reader.read(512) returns b"" (the peer has closed): break,
\* then the finally clause closes the writer.
ReadEOF ==
    /\ pc = "read"
    /\ pos = Len(stream)
    /\ pc' = "closed"
    /\ ending' = "eof"
    /\ closes' = closes + 1
    /\ UNCHANGED <<value, other, extended, iterations>>
    /\ UNCHANGED <<script, stream, pos, buffer, commands, emitted, fed, idx,
                   command, response, written, inflight>>

\* A loop that writes without awaiting drain: the reply is handed to the
\* writer and the for loop, or the next read, goes on at once.
Dispatch_NoDrain ==
    /\ pc = "dispatch"
    /\ command' = commands[idx]
    /\ response' = handle_command(commands[idx])
    /\ written' = Append(written, response')
    /\ inflight' = inflight + 1
    /\ idx' = idx + 1
    /\ pc' = IF idx + 1 <= Len(commands) THEN "dispatch" ELSE "read"
    /\ UNCHANGED <<closes, value, other, extended, iterations>>
    /\ UNCHANGED <<script, stream, pos, buffer, commands, emitted, fed, ending>>

\* response = await handler.handle_command(command); writer.write(response)
Dispatch ==
    /\ pc = "dispatch"
    /\ command' = commands[idx]
    /\ response' = handle_command(commands[idx])
    /\ written' = Append(written, response')
    /\ inflight' = inflight + 1
    /\ pc' = "drain"
    /\ UNCHANGED <<closes, value, other, extended, iterations>>
    /\ UNCHANGED <<script, stream, pos, buffer, commands, emitted, fed, idx,
                   ending>>

\* await writer.drain() returns; the for loop goes to the next command, or
\* the while loop to the next read.
Drain ==
    /\ pc = "drain"
    /\ inflight' = inflight - 1
    /\ idx' = idx + 1
    /\ pc' = IF idx + 1 <= Len(commands) THEN "dispatch" ELSE "read"
    /\ UNCHANGED <<closes, value, other, extended, iterations>>
    /\ UNCHANGED <<script, stream, pos, buffer, commands, emitted, fed,
                   command, response, written, ending>>

\* await reader.read or await writer.drain raises (connection reset, broken
\* pipe): the except clause logs, the finally clause closes the writer.
TransportError ==
    /\ pc \in {"read", "drain"}
    /\ pc' = "closed"
    /\ ending' = "error"
    /\ closes' = closes + 1
    /\ UNCHANGED <<value, other, extended, iterations>>
    /\ UNCHANGED <<script, stream, pos, buffer, commands, emitted, fed, idx,
                   command, response, written, inflight>>

Next == Read \/ ReadEOF \/ Dispatch \/ Drain \/ TransportError

Spec == Init /\ [][Next]_vars

---------------------------------------------------------------------------
(* start_server (src/src/main.py): two connections served by one event      *)
(* loop, each by its own call of handle_client.  One coroutine runs at a    *)
(* time; the variables above are those of the running one, `other` holds    *)
(* those of the suspended one.                                              *)

Running ==
    [script |-> script, stream |-> stream, pos |-> pos, buffer |-> buffer,
     commands |-> commands, emitted |-> emitted, fed |-> fed, pc |-> pc,
     idx |-> idx, command |-> command, response |-> response,
     written |-> written, inflight |-> inflight, ending |-> ending,
     closes |-> closes]

\* A connection just accepted: handle_client up to its first read.
Accepted(sc) ==
    [script |-> sc, stream |-> StreamOf(sc), pos |-> 0, buffer |-> <<>>,
     commands |-> <<>>, emitted |-> <<>>, fed |-> "none", pc |-> "read",
     idx |-> 1, command |-> <<>>, response |-> <<>>,
     written |-> <<>>, inflight |-> 0, ending |-> "open",
     closes |-> 0]

MaxTraffic == 3   \* frames sent on the two connections together

ServerPieces == {PingFrame, FooFrame}
ServerScripts == SeqsOf(ServerPieces, 1, MaxTraffic - 1)

ServerInit ==
    /\ script \in ServerScripts
    /\ stream = StreamOf(script)
    /\ pos = 0
    /\ buffer = <<>>
    /\ commands = <<>>
    /\ emitted = <<>>
    /\ fed = "none"
    /\ pc = "read"
    /\ idx = 1
    /\ command = <<>>
    /\ response = <<>>
    /\ written = <<>>
    /\ inflight = 0
    /\ ending = "open"
    /\ closes = 0
    /\ value = None
    /\ other \in {Accepted(sc) : sc \in ServerScripts}
    /\ Len(script) + Len(other.script) <= MaxTraffic
    /\ extended = 0
    /\ iterations = 0

\* A server whose connections share one parser buffer: the running
\* coroutine finds in it what the suspended one left.
Switch_SharedParser ==
    /\ pc \in {"read", "drain", "closed"}
    /\ other' = Running
    /\ script' = other.script
    /\ stream' = other.stream
    /\ pos' = other.pos
    /\ buffer' = buffer
    /\ commands' = other.commands
    /\ emitted' = other.emitted
    /\ fed' = other.fed
    /\ pc' = other.pc
    /\ idx' = other.idx
    /\ command' = other.command
    /\ response' = other.response
    /\ written' = other.written
    /\ inflight' = other.inflight
    /\ ending' = other.ending
    /\ closes' = other.closes
    /\ UNCHANGED <<value, extended, iterations>>

\* The running coroutine is suspended in await reader.read or await
\* writer.drain, or has returned; the event loop resumes the other one,
\* with its own parser, handler, reader and writer.
Switch ==
    /\ pc \in {"read", "drain", "closed"}
    /\ other' = Running
    /\ script' = other.script
    /\ stream' = other.stream
    /\ pos' = other.pos
    /\ buffer' = other.buffer
    /\ commands' = other.commands
    /\ emitted' = other.emitted
    /\ fed' = other.fed
    /\ pc' = other.pc
    /\ idx' = other.idx
    /\ command' = other.command
    /\ response' = other.response
    /\ written' = other.written
    /\ inflight' = other.inflight
    /\ ending' = other.ending
    /\ closes' = other.closes
    /\ UNCHANGED <<value, extended, iterations>>

ServerNext == Read \/ ReadEOF \/ Dispatch \/ Drain \/ TransportError \/ Switch

SpecServer == ServerInit /\ [][ServerNext]_vars

---------------------------------------------------------------------------
(* MessageParser and handle_client of the threaded server                   *)
(* (src/src/main_threading.py).  buffer is MessageParser.buffer, a str;     *)
(* emitted lists the commands handed to _handle_command, written the bytes  *)
(* handed to client_socket.sendall.                                         *)

\* The for loop of _parse_resp: `remaining` arguments still to be taken
\* from lines[line_idx:]; None for `return None`.
RECURSIVE ParseRespArgs(_, _, _, _)
ParseRespArgs(lines, remaining, line_idx, args) ==
    IF remaining <= 0 THEN Some(args)
    ELSE IF line_idx >= Len(lines) THEN None
    ELSE IF PyStartsWith(lines[line_idx + 1], "$")
        THEN IF line_idx + 1 >= Len(lines) THEN None
             ELSE ParseRespArgs(lines, remaining - 1, line_idx + 2,
                                Append(args, lines[line_idx + 2]))
    ELSE ParseRespArgs(lines, remaining - 1, line_idx + 1,
                       Append(args, lines[line_idx + 1]))

\* ... num_args = int(lines[0][1:]); raised stands for the ValueError
ParseRespCount(lines, num_args) ==
    IF ~num_args.ok THEN [raised |-> TRUE, result |-> None]
    ELSE [raised |-> FALSE,
          result |-> ParseRespArgs(lines, num_args.val, 1, <<>>)]

ParseRespLines(lines) ==
    IF ~PyStartsWith(lines[1], "*") THEN [raised |-> FALSE, result |-> None]
    ELSE ParseRespCount(lines, PyInt(Tail(lines[1])))

\* MessageParser._parse_resp
_parse_resp(buf) == ParseRespLines(PySplitSep(buf, CRLF))

\* MessageParser._echo(data): the bytes handed to sendall
_echo(data) ==
    IF data # <<>>
    THEN PyEncode(<<"$">> \o PyStr(Len(PyJoin(<<" ">>, data))) \o CRLF
                  \o PyJoin(<<" ">>, data) \o CRLF)
    ELSE <<"$", "-", "1">> \o CRLF

\* MessageParser._ping
_ping == <<"+", "P", "O", "N", "G">> \o CRLF

\* MessageParser._handle_command(parts): the calls of sendall it makes
_handle_command(parts) ==
    IF parts = <<>> THEN <<>>
    ELSE IF PyLower(parts[1]) = <<"e", "c", "h", "o">>
        THEN <<_echo(Tail(parts))>>
    ELSE IF PyLower(parts[1]) = <<"p", "i", "n", "g">> THEN <<_ping>>
    ELSE <<>>

\* MessageParser.__call__, the RESP branch once _parse_resp has returned
\* or raised: the buffer left, and the command dispatched if any.
CallResp(buf, r) ==
    IF r.raised \/ r.result.none THEN [buffer |-> buf, parts |-> <<>>]
    ELSE IF r.result.val = <<>> THEN [buffer |-> buf, parts |-> <<>>]
    ELSE [buffer |-> <<>>, parts |-> <<r.result.val>>]

\* ... the text branch once the line is split
CallTextParts(parts) ==
    [buffer |-> <<>>, parts |-> IF parts # <<>> THEN <<parts>> ELSE <<>>]

CallText(buf) ==
    IF PyIndex(buf, <<LF>>, 0) = -1 THEN [buffer |-> buf, parts |-> <<>>]
    ELSE CallTextParts(PySplit(PyStrip(PySplitSep(buf, <<LF>>)[1], StrSpace)))

\* MessageParser.__call__(data), after self.buffer += data
CallBuffer(buf) ==
    IF PyStartsWith(buf, "*") THEN CallResp(buf, _parse_resp(buf))
    ELSE CallText(buf)

MessageParser_call(buf, data) == CallBuffer(buf \o data)

EchoAccent == FramePiece(<<ECHO, <<"U+00E9">>>>)
ThreadedPieces == {PingFrame, EchoAccent, EchoLine}
ThreadedScripts == SeqsOf(ThreadedPieces, 1, MaxPieces)

ThreadedInit ==
    /\ script \in ThreadedScripts
    /\ stream = StreamOf(script)
    /\ pos = 0
    /\ buffer = <<>>
    /\ commands = <<>>
    /\ emitted = <<>>
    /\ fed = "none"
    /\ pc = "recv"
    /\ idx = 1
    /\ command = <<>>
    /\ response = <<>>
    /\ written = <<>>
    /\ inflight = 0
    /\ ending = "open"
    /\ closes = 0
    /\ value = None
    /\ other = <<>>
    /\ extended = 0
    /\ iterations = 0

\* parser(data) has returned r and sent what its command asked for.
Called(n, r) ==
    /\ pos' = pos + n
    /\ buffer' = r.buffer
    /\ commands' = r.parts
    /\ emitted' = emitted \o r.parts
    /\ written' = IF r.parts = <<>> THEN written
                  ELSE written \o _handle_command(r.parts[1])
    /\ fed' = IF fed = "none" THEN "one" ELSE "more"

\* request = client_socket.recv(512); data = request.decode(); parser(data)
Recv ==
    /\ pc = "recv"
    /\ \E n \in 1..(Len(stream) - pos) :
          /\ n <= ReadSize
          /\ ~Undecodable(SubSeq(stream, pos + 1, pos + n))
          /\ Called(n, MessageParser_call(
                           buffer, PyDecode(SubSeq(stream, pos + 1, pos + n))))
    /\ UNCHANGED <<closes, value, other, extended, iterations>>
    /\ UNCHANGED <<script, stream, pc, idx, command, response, inflight,
                   ending>>

\* request.decode() raises UnicodeDecodeError (the read ends inside a
\* character): the except clause logs, the finally clause closes the socket.
RecvUndecodable ==
    /\ pc = "recv"
    /\ \E n \in 1..(Len(stream) - pos) :
          /\ n <= ReadSize
          /\ Undecodable(SubSeq(stream, pos + 1, pos + n))
          /\ pos' = pos + n
    /\ pc' = "closed"
    /\ ending' = "error"
    /\ closes' = closes + 1
    /\ UNCHANGED <<value, other, extended, iterations>>
    /\ UNCHANGED <<script, stream, buffer, commands, emitted, fed, idx,
                   command, response, written, inflight>>

\* recv returns b"": break, then the finally clause closes the socket.
RecvEOF ==
    /\ pc = "recv"
    /\ pos = Len(stream)
    /\ pc' = "closed"
    /\ ending' = "eof"
    /\ closes' = closes + 1
    /\ UNCHANGED <<value, other, extended, iterations>>
    /\ UNCHANGED <<script, stream, pos, buffer, commands, emitted, fed, idx,
                   command, response, written, inflight>>

\* recv raises (connection reset): the except clause logs, the finally
\* clause closes the socket.
RecvError ==
    /\ pc = "recv"
    /\ pc' = "closed"
    /\ ending' = "error"
    /\ closes' = closes + 1
    /\ UNCHANGED <<value, other, extended, iterations>>
    /\ UNCHANGED <<script, stream, pos, buffer, commands, emitted, fed, idx,
                   command, response, written, inflight>>

ThreadedNext == Recv \/ RecvUndecodable \/ RecvEOF \/ RecvError

SpecThreaded == ThreadedInit /\ [][ThreadedNext]_vars

---------------------------------------------------------------------------
(* handle_command applied to one frame.                                     *)

CommandNames ==
    {PING, <<"p", "i", "n", "g">>, <<"P", "i", "n", "G">>,
     ECHO, <<"e", "c", "h", "o">>, <<"e", "C", "h", "O">>,
     <<"F", "O", "O">>, <<"f", "o", "o">>, <<"p", "i", "n">>, <<>>}
CommandArgs == {<<"h", "i">>, <<"a">>, <<>>, <<"U+00E9", "c">>}
Frames ==
    {<<>>} \cup {<<name>> \o args :
                    name \in CommandNames, args \in SeqsOf(CommandArgs, 0, MaxArgs)}

DispatchInit ==
    /\ command \in Frames
    /\ response = <<>>
    /\ pc = "call"
    /\ script = <<>>
    /\ stream = <<>>
    /\ pos = 0
    /\ buffer = <<>>
    /\ commands = <<>>
    /\ emitted = <<>>
    /\ fed = "none"
    /\ idx = 1
    /\ written = <<>>
    /\ inflight = 0
    /\ ending = "open"
    /\ closes = 0
    /\ value = None
    /\ other = <<>>
    /\ extended = 0
    /\ iterations = 0

\* response = await handler.handle_command(command)
HandleCommand ==
    /\ pc = "call"
    /\ response' = handle_command(command)
    /\ pc' = "return"
    /\ UNCHANGED <<closes, value, other, extended, iterations>>
    /\ UNCHANGED <<script, stream, pos, buffer, commands, emitted, fed, idx,
                   command, written, inflight, ending>>

DispatchNext == HandleCommand

SpecDispatch == DispatchInit /\ [][DispatchNext]_vars

---------------------------------------------------------------------------
(* RESPEncoder.encode_bulk_string applied to one value.                     *)

MaxChars == 5     \* characters of an encoded string

\* The strings encoded: ASCII letters, a two-byte character, a line feed.
EncodeChars == {"h", "U+00E9", LF}
EncodeValues == {None} \cup {Some(s) : s \in SeqsOf(EncodeChars, 0, MaxChars)}

EncodeInit ==
    /\ value \in EncodeValues
    /\ response = <<>>
    /\ pc = "call"
    /\ script = <<>>
    /\ stream = <<>>
    /\ pos = 0
    /\ buffer = <<>>
    /\ commands = <<>>
    /\ emitted = <<>>
    /\ fed = "none"
    /\ idx = 1
    /\ command = <<>>
    /\ written = <<>>
    /\ inflight = 0
    /\ ending = "open"
    /\ closes = 0
    /\ other = <<>>
    /\ extended = 0
    /\ iterations = 0

\* RESPEncoder.encode_bulk_string(value)
EncodeBulkString ==
    /\ pc = "call"
    /\ response' = encode_bulk_string(value)
    /\ pc' = "return"
    /\ UNCHANGED <<closes, value, other, extended, iterations>>
    /\ UNCHANGED <<script, stream, pos, buffer, commands, emitted, fed, idx,
                   command, written, inflight, ending>>

EncodeNext == EncodeBulkString

SpecEncode == EncodeInit /\ [][EncodeNext]_vars

---------------------------------------------------------------------------
(* Properties.                                                              *)

IsPrefix(p, s) == Len(p) <= Len(s) /\ SubSeq(s, 1, Len(p)) = p

\* The number of bytes of the first j pieces of a script.
Boundary(sc, j) == Len(StreamOf(SubSeq(sc, 1, j)))

\* How many pieces of the script lie entirely within its first p bytes.
PiecesWithin(sc, p) ==
    CHOOSE j \in 0..Len(sc) :
        /\ Boundary(sc, j) <= p
        /\ \A k \in 0..Len(sc) : Boundary(sc, k) <= p => k <= j

AllFrames(sc) == \A i \in 1..Len(sc) : sc[i].wf
ArgsOf(sc, k) == [i \in 1..k |-> sc[i].args]

\* The bytes of every generated well-formed frame.
WellFormedFrames ==
    {RespFrame(args) : args \in SeqsOf(ArgVals, 1, MaxArgs)}
    \cup {f.bytes : f \in RunFrames}

IsProperFramePrefix(b) ==
    \E f \in WellFormedFrames : Len(b) < Len(f) /\ IsPrefix(b, f)

\* C1: one well-formed RESP array fed to a fresh parser in chunks of any
\* sizes: every feed before the last returns no frame and keeps all the bytes
\* fed so far, the last feed returns exactly the argument list, and the
\* buffer is then empty.
C1_ChunkedFrame ==
    (Len(script) = 1 /\ script[1].wf /\ fed # "none") =>
        IF pos < Len(stream)
        THEN /\ commands = <<>>
             /\ emitted = <<>>
             /\ buffer = SubSeq(stream, 1, pos)
        ELSE /\ commands = <<script[1].args>>
             /\ emitted = <<script[1].args>>
             /\ buffer = <<>>

C1_Witness ==
    /\ Len(script) = 1 /\ script[1].wf
    /\ Len(script[1].args) = 2
    /\ fed = "more"
    /\ pos = Len(stream)
    /\ commands = <<script[1].args>>

\* C2: k >= 2 well-formed frames back to back in the first feed are all
\* returned by that feed, in order, and the buffer keeps exactly the bytes
\* fed after the k-th frame (none, or a proper prefix of the next frame).
C2_FramesInOneFeed ==
    (AllFrames(script) /\ fed = "one" /\ PiecesWithin(script, pos) >= 2) =>
        /\ commands = ArgsOf(script, PiecesWithin(script, pos))
        /\ buffer = SubSeq(stream,
                           Boundary(script, PiecesWithin(script, pos)) + 1, pos)

C2_Witness ==
    /\ AllFrames(script) /\ fed = "one"
    /\ PiecesWithin(script, pos) = 2
    /\ Len(commands) = 2
    /\ buffer # <<>>
    /\ pos < Len(stream)

\* C3: a feed after which the bytes held are a proper prefix of a
\* well-formed frame returns no frame and leaves the buffer equal to the
\* previous buffer followed by the data fed.
C3_IncompleteKept ==
    [][(pos' > pos /\
        IsProperFramePrefix(buffer \o SubSeq(stream, pos + 1, pos')))
       => (/\ commands' = <<>>
           /\ buffer' = buffer \o SubSeq(stream, pos + 1, pos'))]_vars

C3_Witness ==
    /\ fed = "more"
    /\ emitted # <<>>
    /\ commands = <<>>
    /\ Len(buffer) >= 2
    /\ IsProperFramePrefix(buffer)

\* The script starts with piece p, and all of p has been fed.
HeadFed(p) == script[1] = p /\ pos >= Len(p.bytes)

\* C4: an array header whose count is not an integer is a parse fault: no
\* frame is returned for it and the parser does not resynchronize, so once
\* the header has been fed no feed returns a frame.
C4_MalformedHeaderFaults == HeadFed(MalformedHeader) => emitted = <<>>

\* Arrays with a structurally invalid element: one that does not start with
\* `$`, a length that is not an integer, a payload not followed by CRLF.
InvalidElementPieces == {NotBulk, BadLength, BadTerminator}

\* C6: an array with a structurally invalid element is a parse fault, not
\* needs-more-data: the parser is never left waiting (no frame returned, the
\* bytes kept) with such an array complete at the head of its buffer.
C6_InvalidElementFaults ==
    \A p \in InvalidElementPieces :
        ~(fed # "none" /\ commands = <<>> /\ IsPrefix(p.bytes, buffer))

\* What the code does instead: with such an array at the head of the buffer
\* every later feed returns no frame and the array stays at the head.
C6_WaitsForever ==
    [][\A p \in InvalidElementPieces :
         (pos' > pos /\ IsPrefix(p.bytes, buffer))
         => (commands' = <<>> /\ IsPrefix(p.bytes, buffer'))]_vars

\* C7: when feed returns no complete frame is left in the buffer: a feed of
\* zero bytes right after it returns an empty list.
C7_NothingLeftToExtract ==
    fed # "none" => feed(buffer, <<>>).commands = <<>>

\* Text lines, with the frame each carries.
TextPieces == {TextLineLF, TextLineCRLF}
TextFrame(p) == IF p = TextLineLF THEN <<<<"e">>>> ELSE <<<<"c">>, <<"d">>>>

\* C8: in text mode the frame ends at the first line terminator of the
\* buffer, `\r\n` or a bare `\n`: two text lines fed in one call, whatever
\* terminator each ends with, are two frames in order.
C8_FirstTerminatorEndsLine ==
    (/\ Len(script) = 2
     /\ script[1] \in TextPieces /\ script[2] \in TextPieces
     /\ fed = "one" /\ pos = Len(stream))
    => (/\ commands = <<TextFrame(script[1]), TextFrame(script[2])>>
        /\ buffer = <<>>)

\* C5: once the session has read a malformed array header it terminates
\* the connection: nothing is written for it, and no frame that arrives
\* after it is answered.
C5_FaultEndsSession == HeadFed(MalformedHeader) => written = <<>>

\* The pieces of the modelled connections that are valid traffic, with the
\* frames each carries.
ValidPieces == {PingFrame, FooFrame, EchoLine, EmptyLineLF}
FramesOfPiece(p) ==
    IF p.wf THEN <<p.args>>
    ELSE IF p = EchoLine THEN <<<<<<"e", "c", "h", "o">>, <<"h", "i">>>>>>
    ELSE <<>>
FramesOfScript(sc) == Concat([i \in 1..Len(sc) |-> FramesOfPiece(sc[i])])

UnknownCommandReply(name) ==
    <<"-", "E", "R", "R", " ", "u", "n", "k", "n", "o", "w", "n", " ",
      "c", "o", "m", "m", "a", "n", "d", " ", "'">> \o name \o <<"'", CR, LF>>

\* C9: a frame whose command is not registered is answered with exactly one
\* error reply naming the command, and the connection goes on: when the peer
\* closes after valid traffic holding such a frame, every frame of the
\* traffic has been answered, in order.
C9_UnknownCommandNotFatal ==
    /\ (pc = "drain" /\ command # <<>>
        /\ PyUpper(command[1]) \notin {PING, ECHO})
       => (/\ response = UnknownCommandReply(PyUpper(command[1]))
           /\ written[Len(written)] = response)
    /\ (/\ ending = "eof"
        /\ \A i \in 1..Len(script) : script[i] \in ValidPieces
        /\ script[1] = FooFrame)
       => written = [i \in 1..Len(FramesOfScript(script)) |->
                        handle_command(FramesOfScript(script)[i])]

\* C10: a frame whose first element is PING in any letter case is answered
\* +PONG\r\n when it has no argument, and otherwise with the bulk string of
\* its first argument alone.
C10_Ping ==
    (pc = "return" /\ command # <<>> /\ PyUpper(command[1]) = PING) =>
        IF Len(command) = 1
        THEN response = <<"+", "P", "O", "N", "G", CR, LF>>
        ELSE response = encode_bulk_string(Some(command[2]))

C10_Witness ==
    /\ pc = "return"
    /\ command = <<<<"p", "i", "n", "g">>, <<"h", "i">>, <<"a">>>>
    /\ response = <<"$", "2", CR, LF, "h", "i", CR, LF>>

\* The arguments of a frame from the i-th on, one space between neighbours.
RECURSIVE Spaced(_, _)
Spaced(frame, i) ==
    IF i > Len(frame) THEN <<>>
    ELSE IF i = Len(frame) THEN frame[i]
    ELSE frame[i] \o <<" ">> \o Spaced(frame, i + 1)

\* C11: a frame whose first element is ECHO in any letter case is answered
\* $-1\r\n when it has no argument, and otherwise with the bulk string of
\* all its arguments, in order, one space between consecutive arguments.
C11_Echo ==
    (pc = "return" /\ command # <<>> /\ PyUpper(command[1]) = ECHO) =>
        IF Len(command) = 1
        THEN response = <<"$", "-", "1", CR, LF>>
        ELSE response = encode_bulk_string(Some(Spaced(command, 2)))

C11_Witness ==
    /\ pc = "return"
    /\ command = <<<<"e", "C", "h", "O">>, <<"h", "i">>, <<"a">>>>
    /\ response = <<"$", "4", CR, LF, "h", "i", " ", "a", CR, LF>>

\* C12: in the session the replies are written one per frame returned by
\* feed and in frame order, each the result of handle_command on its own
\* frame; a reply is drained before the next frame is dispatched and before
\* the next read: while a read or a dispatch is pending no write is in
\* flight and every frame of the earlier reads is answered, and at most one
\* write is ever in flight.
C12_WriteThenDrain ==
    /\ inflight \in {0, 1}
    /\ pc \in {"read", "dispatch"} => inflight = 0
    /\ pc = "drain" => inflight = 1
    /\ Len(written) <= Len(emitted)
    /\ \A i \in 1..Len(written) : written[i] = handle_command(emitted[i])
    /\ pc = "read" => Len(written) = Len(emitted)
    /\ pc = "dispatch" => Len(written) = Len(emitted) - Len(commands) + idx - 1
    /\ pc = "drain" => (/\ Len(written) = Len(emitted) - Len(commands) + idx
                        /\ command = emitted[Len(written)]
                        /\ response = written[Len(written)])

C12_Witness ==
    /\ pc = "drain"
    /\ inflight = 1
    /\ fed = "more"
    /\ Len(commands) = 2 /\ idx = 2
    /\ Len(written) = 3
    /\ written[2] # written[3]

\* The number of bytes UTF-8 takes for a character.
Utf8Width(c) ==
    IF c = "U+00E9" THEN 2 ELSE IF c = "U+FFFD" THEN 3 ELSE 1

RECURSIVE Utf8Len(_)
Utf8Len(s) == IF s = <<>> THEN 0 ELSE Utf8Width(s[1]) + Utf8Len(Tail(s))

\* C13: encode_bulk_string returns $-1\r\n for an absent value; otherwise
\* the reply is `$`, a decimal number, \r\n, the payload, \r\n, where the
\* payload is the UTF-8 encoding of the string and the number is the count
\* of payload bytes between the two terminators, not the count of
\* characters.
C13_BulkLengthInBytes ==
    pc = "return" =>
        IF value.none THEN response = <<"$", "-", "1", CR, LF>>
        ELSE LET header_end == PyIndex(response, CRLF, 0)
                 declared == SubSeq(response, 2, header_end)
                 payload == SubSeq(response, header_end + 3, Len(response) - 2)
             IN  /\ response[1] = "$"
                 /\ header_end >= 2
                 /\ \A i \in 1..Len(declared) : declared[i] \in DigitSet
                 /\ DigitsValue(declared) = Len(payload)
                 /\ Len(payload) = Utf8Len(value.val)
                 /\ payload = PyEncode(value.val)
                 /\ SubSeq(response, Len(response) - 1, Len(response)) = CRLF

C13_Witness ==
    /\ pc = "return"
    /\ value = Some(<<"h", "U+00E9", "h", "h", "h">>)
    /\ response = <<"$", "6", CR, LF, "h", "xC3", "xA9", "h", "h", "h", CR, LF>>

\* The array whose only element is the empty bulk string, *1\r\n$0\r\n\r\n.
EmptyBulk == FramePiece(<<<<>>>>)

\* C14: a bulk string of declared length -1 is an absent value in the
\* frame, not the empty string: the frames returned for *1\r\n$-1\r\n are
\* not those returned for *1\r\n$0\r\n\r\n.
C14_NullBulkIsAbsent ==
    (script = <<NullBulk>> /\ fed # "none" /\ pos = Len(stream))
    => emitted # feed(<<>>, EmptyBulk.bytes).commands

\* What a connection shows of its own traffic, all of it well-formed
\* frames: the frames emitted are the frames complete in the bytes it has
\* read, its parser holds the bytes read after them, and its replies are
\* the replies to its first frames.
OwnTrafficOnly(c) ==
    /\ c.emitted = ArgsOf(c.script, PiecesWithin(c.script, c.pos))
    /\ c.buffer = SubSeq(c.stream,
                         Boundary(c.script, PiecesWithin(c.script, c.pos)) + 1,
                         c.pos)
    /\ Len(c.written) <= Len(c.emitted)
    /\ \A i \in 1..Len(c.written) :
           c.written[i] = handle_command(c.script[i].args)

\* C15: connections are isolated under every interleaving of their reads,
\* dispatches and writes: what each connection emits, holds and writes is
\* determined by the bytes read on that connection alone, whatever the
\* other connection has fed, an incomplete fragment included.
C15_Isolated == OwnTrafficOnly(Running) /\ OwnTrafficOnly(other)

C15_Witness ==
    /\ Len(buffer) > 0 /\ Len(other.buffer) > 0
    /\ Len(written) = 1 /\ other.written = <<>>
    /\ script[1] # other.script[1]
    /\ fed = "more" /\ other.fed = "more"

\* What the parser may remove from the head of its buffer.  A bulk string
\* starting at position p of u, $<L>\r\n followed for L >= 0 by L bytes
\* and \r\n, with its end; -1 when there is none.
BulkEnd(u, p) ==
    IF p >= Len(u) \/ u[p + 1] # "$" THEN -1
    ELSE LET e == PyIndex(u, CRLF, p)
             L == PyInt(PySlice(u, p + 1, e))
         IN  IF e = -1 \/ ~L.ok \/ L.val < -1 THEN -1
             ELSE IF L.val = -1 THEN e + 2
             ELSE IF /\ e + L.val + 4 <= Len(u)
                     /\ SubSeq(u, e + L.val + 3, e + L.val + 4) = CRLF
                 THEN e + L.val + 4
             ELSE -1

RECURSIVE ElementsEnd(_, _, _)
ElementsEnd(u, p, n) ==
    IF p = -1 THEN -1
    ELSE IF n <= 0 THEN p
    ELSE ElementsEnd(u, BulkEnd(u, p), n - 1)

\* The end of the complete frame u starts with: *<N>\r\n and N bulk strings.
FrameEnd(u) ==
    LET h == PyIndex(u, CRLF, 0)
        N == PyInt(PySlice(u, 1, h))
    IN  IF h = -1 \/ ~N.ok THEN -1 ELSE ElementsEnd(u, h + 2, N.val)

\* The end of the malformed array header line u starts with.
MalformedHeaderEnd(u) ==
    LET h == PyIndex(u, CRLF, 0)
    IN  IF h = -1 \/ PyInt(PySlice(u, 1, h)).ok THEN -1 ELSE h + 2

\* u is a run of complete frames, terminated text lines and malformed
\* array header lines.
RECURSIVE WholeUnits(_)
WholeUnits(u) ==
    IF u = <<>> THEN TRUE
    ELSE IF u[1] = "*"
        THEN LET k == IF FrameEnd(u) # -1 THEN FrameEnd(u)
                      ELSE MalformedHeaderEnd(u)
             IN  k # -1 /\ WholeUnits(SubSeq(u, k + 1, Len(u)))
    ELSE \E k \in 1..Len(u) :
             u[k] = LF /\ WholeUnits(SubSeq(u, k + 1, Len(u)))

\* C16: after every feed the buffer is the unconsumed tail of the stream:
\* the bytes consumed so far followed by the buffer are the bytes fed so
\* far, the buffer has only lost a prefix, and what the feed removed is a
\* run of complete frames, terminated text lines and malformed array header
\* lines.
C16_UnconsumedTail ==
    [][pos' > pos =>
         /\ Len(buffer') <= pos'
         /\ buffer' = SubSeq(stream, pos' - Len(buffer') + 1, pos')
         /\ pos' - Len(buffer') >= pos - Len(buffer)
         /\ WholeUnits(SubSeq(stream, pos - Len(buffer) + 1,
                              pos' - Len(buffer')))]_vars

\* C17: every frame feed returns has at least one element, the command
\* name; no input, an array header declaring zero elements included, makes
\* feed return an empty frame.
C17_NoEmptyFrame == \A i \in 1..Len(emitted) : Len(emitted[i]) >= 1

\* C18: a bulk string of declared length L >= 0 is the L bytes after its
\* header line, whatever the bytes are: once a stream of well-formed frames
\* has been fed, in any chunks, there is one frame per array, each with as
\* many arguments as its header declares, each argument the declared bytes
\* (a payload holding \r\n, \n, $ or * included, and the empty payload of
\* length 0), and nothing is left in the buffer.
C18_LengthDelimits ==
    (AllFrames(script) /\ pos = Len(stream)) =>
        /\ Len(emitted) = Len(script)
        /\ \A i \in 1..Len(script) :
               /\ Len(emitted[i]) = Len(script[i].args)
               /\ \A j \in 1..Len(script[i].args) :
                      PyEncode(emitted[i][j]) = PyEncode(script[i].args[j])
        /\ buffer = <<>>

C18_Witness ==
    /\ script = <<FramePiece(<<<<"*", LF, "$">>, <<>>>>)>>
    /\ fed = "more"
    /\ pos = Len(stream)
    /\ emitted = <<<<<<"*", LF, "$">>, <<>>>>>>

\* C19: an empty read ends the connection.  The step that takes it stops
\* the loop and closes the writer, once; no write is in flight, nothing is
\* written for what the parser buffer still holds, so the replies are those
\* of the frames emitted before; and no read, dispatch or write follows on
\* the connection.
C19_EOFEndsConnection ==
    [][/\ ending # "eof"
       /\ ending' = "eof" =>
             (/\ pc = "read" /\ pos = Len(stream)
              /\ pc' = "closed"
              /\ closes' = 1
              /\ inflight' = 0
              /\ written' = written
              /\ Len(written') = Len(emitted')
              /\ buffer' = buffer)]_vars

C19_Witness ==
    /\ ending = "eof" /\ pc = "closed" /\ closes = 1
    /\ script[Len(script)] = Fragment
    /\ buffer = Fragment.bytes
    /\ Len(written) = 2

\* C20: in the threaded server the commands dispatched on a connection are
\* the complete frames of the bytes received, in order, however the stream
\* is divided into reads: none from a frame still incomplete, and both when
\* one read carries two.
C20_ThreadedDispatchesFrames ==
    (AllFrames(script) /\ ending = "open")
    => emitted = ArgsOf(script, PiecesWithin(script, pos))

\* C21: every call of feed terminates: an iteration of its loop that
\* yields a frame removes at least one byte from the buffer, an iteration
\* that yields none ends the loop, so a call makes at most as many
\* iterations as the buffer has bytes, plus one.
C21_FeedTerminates ==
    [][/\ iterations' <= extended' + 1
       /\ pc = "while" =>
             /\ iterations' = iterations + 1
             /\ IF Len(commands') > Len(commands)
                THEN Len(buffer') < Len(buffer) /\ pc' = "while"
                ELSE pc' = "feed"]_vars

C21_Witness ==
    /\ pc = "feed"
    /\ fed = "more"
    /\ iterations = 3
    /\ Len(commands) = 2
    /\ extended > Len(buffer)
    /\ buffer # <<>>

\* C22: the frames extracted do not depend on the chunk boundaries: once a
\* stream has been fed, in chunks of any sizes, the frames returned so far
\* and the buffer left are those of a fresh parser fed the whole stream in
\* one chunk.
C22_ChunkingIndependent ==
    pos = Len(stream) =>
        /\ emitted = feed(<<>>, stream).commands
        /\ buffer = feed(<<>>, stream).buffer

=============================================================================
